---------------------------- MODULE Spec2Model ----------------------------
(***************************************************************************)
(* Shopify order export -> MOVA 29-column sheet.                           *)
(*                                                                         *)
(* Model of services/orderLogic.ts (cleanPhone, formatAddress,             *)
(* parseInvoiceInfo, processOrders, convertToMovaRows), of                 *)
(* services/csvParser.ts (parseShopifyCSV) and of the upload handler of    *)
(* App.tsx.                                                                *)
(*                                                                         *)
(* Representation                                                          *)
(*  - A JavaScript string that the code inspects character by character    *)
(*    (phones, numeric fields, streets, the note-attributes blob) is a     *)
(*    sequence of one-token strings.  In a blob the three key literals of  *)
(*    the regular expressions are single tokens (KeyType, KeyId, KeyName)  *)
(*    and a word such as "company" is a single token.                      *)
(*  - A string the code only copies or tests for truthiness is a TLA+      *)
(*    string; Undefined stands for a missing key of the parsed record.     *)
(*  - A JavaScript number is a record [nan, v].  Prices and amounts are    *)
(*    counted in halves (v = 2 * amount) so that the decimal inputs used   *)
(*    here (x.0 and x.5) are exact, as they are in IEEE doubles;           *)
(*    quantities are counted in units.                                     *)
(***************************************************************************)
EXTENDS Integers, Sequences, FiniteSets, TLC

VARIABLES
    dateToken,      \* App state: useState('')                (App.tsx:17)
    isProcessing,   \* App state: useState(false)             (App.tsx:18)
    error,          \* App state: useState<string|null>(null) (App.tsx:19)
    stats,          \* App state: {orders, items} | null      (App.tsx:20)
    processedData,  \* App state: excel rows | null           (App.tsx:21)
    phase,          \* position of the last run of handleFileUpload
    rawRows,        \* the run's parsed records (results.data / rawRows)
    orders,         \* the run's local `orders` (result of processOrders)
    phoneIn,        \* argument of cleanPhone under study
    phoneOut,       \* its result
    attrsIn,        \* argument of parseInvoiceInfo under study
    invoiceOut      \* its result

appVars == <<dateToken, isProcessing, error, stats, processedData, phase, rawRows, orders>>
phoneVars == <<phoneIn, phoneOut>>
invoiceVars == <<attrsIn, invoiceOut>>
vars == <<appVars, phoneVars, invoiceVars>>

\* null in a string state
Null == "null"

\* a state that holds null or a value: the empty sequence, or the value alone
NoValue == <<>>
Some(x) == <<x>>
Undefined == "undefined"

-----------------------------------------------------------------------------
(* Character classes of the regular expressions and of String.trim          *)

Digits == {"0", "1", "2", "3", "4", "5", "6", "7", "8", "9"}

DigitVal(c) ==
    CASE c = "0" -> 0 [] c = "1" -> 1 [] c = "2" -> 2 [] c = "3" -> 3
      [] c = "4" -> 4 [] c = "5" -> 5 [] c = "6" -> 6 [] c = "7" -> 7
      [] c = "8" -> 8 [] c = "9" -> 9

\* [\n\r]
LineBreaks == {"\n", "\r"}

\* \s (the members that occur in the inputs)
WhiteSpace == {" ", "\t", "\n", "\r"}

IsDigit(c) == c \in Digits

SubStr(s, from, to) == [i \in 1..(to - from + 1) |-> s[from + i - 1]]

\* s.substring(n): drop the first n characters
Drop(s, n) == IF n >= Len(s) THEN <<>> ELSE SubStr(s, n + 1, Len(s))

\* s.startsWith(prefix)
StartsWith(s, prefix) ==
    /\ Len(s) >= Len(prefix)
    /\ \A i \in 1..Len(prefix) : s[i] = prefix[i]

\* String.prototype.trim
Trim(s) ==
    LET keep == {i \in 1..Len(s) : s[i] \notin WhiteSpace}
    IN IF keep = {} THEN <<>>
       ELSE LET lo == CHOOSE i \in keep : \A j \in keep : i <= j
                hi == CHOOSE i \in keep : \A j \in keep : j <= i
            IN SubStr(s, lo, hi)

\* String.prototype.toLowerCase on the word tokens of a blob
LowerTok(c) == IF c = "COMPANY" THEN "company" ELSE IF c = "Company" THEN "company" ELSE c

ToLowerCase(s) == [i \in 1..Len(s) |-> LowerTok(s[i])]

\* s.replace(/[^\d]/g, '') and s.replace(/\D/g, '')
RECURSIVE StripNonDigits(_)
StripNonDigits(s) ==
    IF s = <<>> THEN <<>>
    ELSE IF IsDigit(Head(s)) THEN <<Head(s)>> \o StripNonDigits(Tail(s))
         ELSE StripNonDigits(Tail(s))

-----------------------------------------------------------------------------
(* JavaScript numbers                                                        *)

NaN == [nan |-> TRUE, v |-> 0]
Num(n) == [nan |-> FALSE, v |-> n]

\* a whole amount n counted in halves
Whole(n) == n + n

\* a + b
Add(a, b) == IF a.nan \/ b.nan THEN NaN ELSE Num(a.v + b.v)

\* a * b
Mul(a, b) == IF a.nan \/ b.nan THEN NaN ELSE Num(a.v * b.v)

\* a < n: false whenever a is NaN
LessThan(a, n) == ~a.nan /\ a.v < n

\* the length of the longest prefix of s made of digits
RECURSIVE DigitRun(_)
DigitRun(s) ==
    IF s = <<>> \/ ~IsDigit(Head(s)) THEN 0 ELSE 1 + DigitRun(Tail(s))

\* the decimal value of a sequence of digits
RECURSIVE DecVal(_)
DecVal(s) ==
    IF s = <<>> THEN 0 ELSE 10 * DecVal(SubStr(s, 1, Len(s) - 1)) + DigitVal(s[Len(s)])

\* leading white space is skipped by parseInt and parseFloat
RECURSIVE SkipSpace(_)
SkipSpace(s) ==
    IF s # <<>> /\ Head(s) \in WhiteSpace THEN SkipSpace(Tail(s)) ELSE s

\* parseInt(s, 10): optional sign, then the longest run of digits; NaN when
\* there is no digit.  The value is in units.
parseInt(s) ==
    LET t == SkipSpace(s)
        neg == t # <<>> /\ Head(t) = "-"
        u == IF t # <<>> /\ Head(t) \in {"-", "+"} THEN Tail(t) ELSE t
        n == DigitRun(u)
    IN IF n = 0 THEN NaN
       ELSE Num((IF neg THEN -1 ELSE 1) * DecVal(SubStr(u, 1, n)))

\* the halves in a fraction written with the digits f (x.0.. and x.5.. only)
FracHalves(f) == IF f # <<>> /\ Head(f) = "5" THEN 1 ELSE 0

\* parseFloat(s): optional sign, digits, optional "." and digits; NaN when
\* neither part has a digit.  The value is in halves.
parseFloat(s) ==
    LET t == SkipSpace(s)
        neg == t # <<>> /\ Head(t) = "-"
        u == IF t # <<>> /\ Head(t) \in {"-", "+"} THEN Tail(t) ELSE t
        n == DigitRun(u)
        rest == Drop(u, n)
        f == IF rest # <<>> /\ Head(rest) = "." THEN DigitRun(Tail(rest)) ELSE 0
        frac == IF f = 0 THEN <<>> ELSE SubStr(Tail(rest), 1, f)
    IN IF n = 0 /\ f = 0 THEN NaN
       ELSE Num((IF neg THEN -1 ELSE 1) * (Whole(DecVal(SubStr(u, 1, n))) + FracHalves(frac)))

-----------------------------------------------------------------------------
(* cleanPhone                                                                *)

CountryCode == <<"8", "8", "6">>

\* the length of a mobile number without its leading zero
MobileLen == 9

\* step 2 of cleanPhone applies to the digit string p
CountryStepFires(p) == StartsWith(p, CountryCode)

\* step 3 of cleanPhone applies to the digit string p
MobileStepFires(p) == StartsWith(p, <<"9">>) /\ Len(p) = MobileLen

\* CountryStep without the leading zero: p.substring(3)
CountryStepNoZero(p) == IF CountryStepFires(p) THEN Drop(p, 3) ELSE p

\* step 2: '0' + p.substring(3)
CountryStep(p) == IF CountryStepFires(p) THEN <<"0">> \o Drop(p, 3) ELSE p

\* step 3: '0' + p
MobileStep(p) == IF MobileStepFires(p) THEN <<"0">> \o p ELSE p

cleanPhone(phone) ==
    IF phone = <<>> THEN <<>>
    ELSE MobileStep(CountryStep(StripNonDigits(phone)))

-----------------------------------------------------------------------------
(* formatAddress                                                             *)

formatAddress(row) ==
    IF row.ShippingStreet # <<>> THEN Trim(row.ShippingStreet)
    ELSE row.BillingStreet

-----------------------------------------------------------------------------
(* parseInvoiceInfo                                                          *)

\* the key literals of the three regular expressions, one token each
KeyType == "(InvoiceType):"
KeyId == "(CompanyId):"
KeyName == "(CompanyName):"

\* the two character classes of the groups: \d and [^\n\r]
ClassDigit == "\\d"
ClassLine == "[^\\n\\r]"

InClass(cls, c) == IF cls = ClassDigit THEN IsDigit(c) ELSE c \notin LineBreaks

\* the last position of the white space that follows position i
WsEnd(s, i) ==
    CHOOSE j \in i..Len(s) :
        /\ \A m \in (i + 1)..j : s[m] \in WhiteSpace
        /\ j = Len(s) \/ s[j + 1] \notin WhiteSpace

\* /key\s*(C+)/ tried with the key at position i: the positions at which \s*
\* may stop so that the next character is in the class C
GroupStarts(s, i, cls) ==
    {k \in i..WsEnd(s, i) : k + 1 <= Len(s) /\ InClass(cls, s[k + 1])}

\* the last position of the run of class-C characters that starts at p
RunEnd(s, p, cls) ==
    CHOOSE q \in p..Len(s) :
        /\ \A m \in p..q : InClass(cls, s[m])
        /\ q = Len(s) \/ ~InClass(cls, s[q + 1])

MinOf(S) == CHOOSE a \in S : \A b \in S : a <= b
MaxOf(S) == CHOOSE a \in S : \A b \in S : b <= a

GroupFrom(s, p, cls) == [matched |-> TRUE, group |-> SubStr(s, p, RunEnd(s, p, cls))]

MatchAt(s, i, cls) == GroupFrom(s, MaxOf(GroupStarts(s, i, cls)) + 1, cls)

MatchAmong(s, at, cls) ==
    IF at = {} THEN [matched |-> FALSE, group |-> <<>>]
    ELSE MatchAt(s, MinOf(at), cls)

RegexMatch(s, key, cls) ==
    MatchAmong(s, {i \in 1..Len(s) : s[i] = key /\ GroupStarts(s, i, cls) # {}}, cls)

EmptyInvoice == [taxId |-> <<>>, companyName |-> <<>>]

\* typeMatch ? typeMatch[1].trim().toLowerCase() : ''
InvoiceTypeOf(attrs) ==
    LET typeMatch == RegexMatch(attrs, KeyType, ClassLine)
    IN IF typeMatch.matched THEN ToLowerCase(Trim(typeMatch.group)) ELSE <<>>

\* the object returned when the type is 'company'
CompanyInvoice(attrs) ==
    LET taxIdMatch == RegexMatch(attrs, KeyId, ClassDigit)
        nameMatch == RegexMatch(attrs, KeyName, ClassLine)
    IN [taxId |-> IF taxIdMatch.matched THEN Trim(taxIdMatch.group) ELSE <<>>,
        companyName |-> IF nameMatch.matched THEN Trim(nameMatch.group) ELSE <<>>]

parseInvoiceInfo(attrs) ==
    IF attrs = <<>> THEN EmptyInvoice
    ELSE IF InvoiceTypeOf(attrs) # <<"company">> THEN EmptyInvoice
         ELSE CompanyInvoice(attrs)

-----------------------------------------------------------------------------
(* processOrders                                                             *)

\* !x for a string that may be missing
Falsy(x) == x = Undefined \/ x = ""

\* a || b on strings
Or(a, b) == IF Falsy(a) THEN b ELSE a

\* a || b on character sequences (a missing one is the empty sequence)
OrSeq(a, b) == IF a = <<>> THEN b ELSE a

\* the threshold of the shipping rule, in whole amounts
ShippingThreshold == 1000

\* the price of the shipping item, in whole amounts
AddonPrice == 120

\* the argument of orderMap.set: the order created from the first row of its id
NewOrder(row) ==
       [orderId |-> row.Name,
        shopifyId |-> Or(row.Id, ""),
        paymentRef |-> Or(row.PaymentReferences, Or(row.PaymentReference, "")),
        carrierId |-> Or(row.Email, ""),
        taxId |-> parseInvoiceInfo(row.NoteAttributes).taxId,
        companyName |-> parseInvoiceInfo(row.NoteAttributes).companyName,
        email |-> row.Email,
        createdAt |-> row.CreatedAt,
        shippingMethod |-> Or(row.ShippingMethod, ""),
        customer |-> [name |-> Or(row.ShippingName, Or(row.BillingName, "Unknown")),
                      phone |-> cleanPhone(OrSeq(row.ShippingPhone, row.BillingPhone)),
                      address |-> formatAddress(row),
                      city |-> Or(row.ShippingCity, Or(row.BillingCity, "")),
                      zip |-> Or(row.ShippingZip, Or(row.BillingZip, ""))],
        items |-> <<>>,
        subtotal |-> Num(0),
        originalSubtotal |-> parseFloat(OrSeq(row.Subtotal, <<"0">>)),
        shippingFee |-> parseFloat(OrSeq(row.Shipping, <<"0">>)),
        total |-> parseFloat(OrSeq(row.Total, <<"0">>)),
        warnings |-> <<>>]

\* the line item pushed for a row (isSystemAddon is left unset: FALSE)
RowItem(row) ==
    [sku |-> Or(row.LineitemSku, ""),
     name |-> row.LineitemName,
     quantity |-> parseInt(OrSeq(row.LineitemQuantity, <<"0">>)),
     price |-> parseFloat(OrSeq(row.LineitemPrice, <<"0">>)),
     isSystemAddon |-> FALSE]

\* orderMap.has(orderId); the Map is the sequence of its values in insertion order
MapHas(orderMap, orderId) == \E i \in 1..Len(orderMap) : orderMap[i].orderId = orderId

MapIndex(orderMap, orderId) == CHOOSE i \in 1..Len(orderMap) : orderMap[i].orderId = orderId

\* the Map after `if (!orderMap.has(orderId)) orderMap.set(orderId, ...)`
EnsureOrder(orderMap, row) ==
    IF MapHas(orderMap, row.Name) THEN orderMap ELSE Append(orderMap, NewOrder(row))

\* the Map after `if (name) order.items.push(...)` on the order of the row
PushItem(orderMap, row) ==
    IF Falsy(row.LineitemName) THEN orderMap
    ELSE [orderMap EXCEPT ![MapIndex(orderMap, row.Name)].items = Append(@, RowItem(row))]

\* RowStep with unshift in place of push
RowStepUnshift(orderMap, row) ==
    IF Falsy(row.Name) \/ Falsy(row.LineitemName) THEN
        (IF Falsy(row.Name) THEN orderMap ELSE EnsureOrder(orderMap, row))
    ELSE [EnsureOrder(orderMap, row) EXCEPT
            ![MapIndex(EnsureOrder(orderMap, row), row.Name)].items = <<RowItem(row)>> \o @]

\* one call of the callback of rows.forEach
RowStep(orderMap, row) ==
    IF Falsy(row.Name) THEN orderMap
    ELSE PushItem(EnsureOrder(orderMap, row), row)

\* rows.forEach(...) starting from an empty Map
RECURSIVE Aggregate(_)
Aggregate(rows) ==
    IF rows = <<>> THEN <<>>
    ELSE RowStep(Aggregate(SubStr(rows, 1, Len(rows) - 1)), rows[Len(rows)])

\* order.items.reduce((sum, item) => sum + item.price * item.quantity, 0)
RECURSIVE SumItems(_)
SumItems(items) ==
    IF items = <<>> THEN Num(0)
    ELSE Add(SumItems(SubStr(items, 1, Len(items) - 1)),
             Mul(items[Len(items)].price, items[Len(items)].quantity))

ShippingItem ==
    [sku |-> "Z90001", name |-> "Shipping fee", quantity |-> Num(1),
     price |-> Num(Whole(AddonPrice)), isSystemAddon |-> TRUE]

\* WithShipping with <= in place of <
WithShippingInclusive(items, subtotal) ==
    IF LessThan(subtotal, Whole(ShippingThreshold) + 1) THEN Append(items, ShippingItem)
    ELSE items

\* the shipping rule: the items after the test of the subtotal
WithShipping(items, subtotal) ==
    IF LessThan(subtotal, Whole(ShippingThreshold)) THEN Append(items, ShippingItem)
    ELSE items

\* FinalizeOrder with the subtotal computed after the shipping item is pushed
FinalizeOrderAfterAddon(order) ==
    [order EXCEPT !.subtotal = SumItems(WithShipping(order.items, SumItems(order.items))),
                  !.items = WithShipping(order.items, SumItems(order.items))]

\* one call of the callback of orderMap.forEach
FinalizeOrder(order) ==
    [order EXCEPT !.subtotal = SumItems(order.items),
                  !.items = WithShipping(order.items, SumItems(order.items))]

\* orderMap.forEach(...): processedOrders in the Map's insertion order
FinalizeAll(orderMap) == [i \in 1..Len(orderMap) |-> FinalizeOrder(orderMap[i])]

processOrders(rows) == FinalizeAll(Aggregate(rows))

-----------------------------------------------------------------------------
(* convertToMovaRows                                                         *)

\* the number of positions of an export row
RowWidth == 29

\* the header row (the labels are given by their meaning)
MOVA_HEADERS ==
    <<"ChannelOrderNo", "Receiver", "Phone", "Address", "Remark", "ItemNo",
      "LineTotal", "Quantity", "UnitPrice", "Warehouse", "TaxNo", "COD",
      "Salesman", "RoundTrip", "Attachment", "Transport", "Expiry",
      "CustomerItemNo", "ErpCustomer", "FixedWarehouse", "InvoiceNo",
      "CarrierNo", "InvoiceDate", "InvoiceTime", "InvoiceTaxNo",
      "InvoiceTitle", "ChannelOrderSeq", "SiteOrderNo", "Email">>

\* ChannelOrderId without the payment reference
ChannelOrderIdNameOnly(order) == order.orderId

\* order.paymentRef || order.orderId
ChannelOrderId(order) == Or(order.paymentRef, order.orderId)

\* Array(29).fill('') and the assignments row[0] .. row[28], which are the
\* positions 1 .. 29 of the sequence
MovaRow(order, item) ==
    [[i \in 1..RowWidth |-> ""] EXCEPT
        ![1] = ChannelOrderId(order),
        ![2] = order.customer.name,
        ![3] = order.customer.phone,
        ![4] = order.customer.address,
        ![5] = "",
        ![6] = item.sku,
        ![7] = Mul(item.price, item.quantity),
        ![8] = item.quantity,
        ![9] = item.price,
        ![10] = "XF1400",
        ![11] = "",
        ![12] = "",
        ![13] = "6301",
        ![14] = "N",
        ![15] = "N",
        ![16] = "2",
        ![17] = "",
        ![18] = item.sku,
        ![19] = "F91000000",
        ![20] = "N",
        ![21] = "",
        ![22] = order.carrierId,
        ![23] = "",
        ![24] = "",
        ![25] = OrSeq(order.taxId, <<>>),
        ![26] = OrSeq(order.companyName, <<>>),
        ![27] = order.orderId,
        ![28] = order.shopifyId,
        ![29] = order.email]

\* OrderRows that leaves the system addon out
OrderRowsRealOnly(order) ==
    [j \in 1..Len(SelectSeq(order.items, LAMBDA it : ~it.isSystemAddon)) |->
        MovaRow(order, SelectSeq(order.items, LAMBDA it : ~it.isSystemAddon)[j])]

\* the rows of one order: order.items.forEach
OrderRows(order) == [j \in 1..Len(order.items) |-> MovaRow(order, order.items[j])]

RECURSIVE Flatten(_)
Flatten(seqs) == IF seqs = <<>> THEN <<>> ELSE Head(seqs) \o Flatten(Tail(seqs))

convertToMovaRows(os) ==
    <<MOVA_HEADERS>> \o Flatten([i \in 1..Len(os) |-> OrderRows(os[i])])

-----------------------------------------------------------------------------
(* The parsed records of the uploaded files                                  *)

\* the largest number of records in an uploaded file
MaxRows == 3

\* 3 x 166.5 = 499.5 (two such records sum to 999), a complete order: plural payment reference, company invoice
RowWidget ==
    [Name |-> Undefined, Id |-> "5001", Email |-> "amy@shop.tw",
     PaymentReferences |-> "PAY-1", PaymentReference |-> "REF-1",
     ShippingName |-> "Amy", BillingName |-> "Bob",
     ShippingPhone |-> <<"+", "8", "8", "6", "9", "1", "2", "3", "4", "5", "6", "7", "8">>,
     BillingPhone |-> <<"0", "2", "1">>,
     ShippingStreet |-> <<" ", "1", " ", "Main", " ">>, BillingStreet |-> <<"2", " ", "Side">>,
     ShippingCity |-> "Taipei", BillingCity |-> "Tainan",
     ShippingZip |-> "100", BillingZip |-> "700",
     NoteAttributes |-> <<KeyType, " ", "Company", "\n", KeyId, " ", "1", "2", "\n",
                          KeyName, " ", "Acme", " ", "Co">>,
     Subtotal |-> <<"5">>, Shipping |-> <<"6", "0">>, Total |-> <<"6", "5">>,
     ShippingMethod |-> "Home", CreatedAt |-> "2024-01-01",
     LineitemQuantity |-> <<"3">>, LineitemPrice |-> <<"1", "6", "6", ".", "5">>,
     LineitemName |-> "Widget", LineitemSku |-> "A1"]

\* 2 x 500 = 1000, a sparse order: no payment reference, personal invoice,
\* billing fall-backs, unparseable Subtotal
RowGadget ==
    [Name |-> Undefined, Id |-> Undefined, Email |-> Undefined,
     PaymentReferences |-> Undefined, PaymentReference |-> "",
     ShippingName |-> "", BillingName |-> "",
     ShippingPhone |-> <<>>,
     BillingPhone |-> <<"9", "1", "2", "3", "4", "5", "6", "7", "8">>,
     ShippingStreet |-> <<>>, BillingStreet |-> <<" ", "9", " ">>,
     ShippingCity |-> "", BillingCity |-> "Tainan",
     ShippingZip |-> Undefined, BillingZip |-> Undefined,
     NoteAttributes |-> <<KeyType, " ", "personal", "\n", KeyId, " ", "3", "4">>,
     Subtotal |-> <<"a", "b", "c">>, Shipping |-> <<>>, Total |-> <<"1", "x">>,
     ShippingMethod |-> Undefined, CreatedAt |-> "2024-01-02",
     LineitemQuantity |-> <<"2">>, LineitemPrice |-> <<"5", "0", "0">>,
     LineitemName |-> "Gadget", LineitemSku |-> "B2"]

\* quantity that is not a number, singular payment reference, no note
RowOddQty ==
    [RowGadget EXCEPT
        !.Id = "5003", !.Email = "cat@shop.tw", !.PaymentReference = "REF-3",
        !.NoteAttributes = <<>>, !.Subtotal = <<"7">>,
        !.LineitemQuantity = <<"x", "2">>, !.LineitemPrice = <<"1", "0", "0">>,
        !.LineitemName = "Gizmo", !.LineitemSku = Undefined]

\* price that is not a number
RowOddPrice ==
    [RowWidget EXCEPT
        !.Id = "5004", !.PaymentReferences = "",
        !.LineitemQuantity = <<"3">>, !.LineitemPrice = <<"N", "T", "5">>,
        !.LineitemName = "Doohickey", !.LineitemSku = "D4"]

\* a record without a line item
RowNoItem ==
    [RowGadget EXCEPT
        !.Id = "5005", !.LineitemQuantity = <<>>, !.LineitemPrice = <<>>,
        !.LineitemName = "", !.LineitemSku = ""]

RowTemplates == {RowWidget, RowGadget, RowOddQty}

OrderNames == {"MOVA-1", "MOVA-2"}

\* The records of the files: the parseable and the odd-quantity templates under
\* every order identifier, the odd-price record and the record without a line
\* item under the first, and a record whose Name is missing or empty (processOrders reads no
\* other field of such a record).
ShopifyRows ==
    {[t EXCEPT !.Name = n] : t \in RowTemplates, n \in OrderNames}
        \cup {[t EXCEPT !.Name = "MOVA-1"] : t \in {RowOddPrice, RowNoItem}}
        \cup {[RowWidget EXCEPT !.Name = n] : n \in {Undefined, ""}}

\* results.data of Papa.parse for the files that can be uploaded
ParsedFiles == UNION {[1..n -> ShopifyRows] : n \in 0..MaxRows}

\* the texts typed into the date field
DateInputs == {<<"2", "0", "2", "4", "-", "1", "0">>, <<"2", "0", "x">>}

-----------------------------------------------------------------------------
(* App.tsx                                                                   *)

NoDateMessage == "enter the date first"
BadDateMessage == "the date must be 4 to 8 digits"
EmptyFileMessage == "the file is empty"
NoNameMessage == "CSV format error: no Name column"
ReadErrorMessage == "the file could not be read"

\* dateToken.match(/^\d{4,8}$/)
DateTokenOk(t) == Len(t) >= 4 /\ Len(t) <= 8 /\ \A i \in 1..Len(t) : IsDigit(t[i])

handleDateTokenChange(val) ==
    /\ dateToken' = StripNonDigits(val)
    /\ UNCHANGED <<isProcessing, error, stats, processedData, phase, rawRows, orders>>
    /\ UNCHANGED <<phoneVars, invoiceVars>>

\* handleFileUpload up to `await parseShopifyCSV(file)`.  The file input is
\* disabled while !dateToken || isProcessing.
handleFileUpload ==
    /\ ~isProcessing
    /\ dateToken # <<>>
    /\ stats' = NoValue
    /\ processedData' = NoValue
    /\ orders' = <<>>
    /\ rawRows' = <<>>
    /\ IF dateToken = <<>>
         THEN /\ error' = NoDateMessage
              /\ phase' = "dateError"
              /\ UNCHANGED isProcessing
         ELSE IF ~DateTokenOk(dateToken)
                THEN /\ error' = BadDateMessage
                     /\ phase' = "dateError"
                     /\ UNCHANGED isProcessing
                ELSE /\ error' = Null
                     /\ isProcessing' = TRUE
                     /\ phase' = "parsing"
    /\ UNCHANGED <<dateToken, phoneVars, invoiceVars>>

\* the rest of the handler when the promise is rejected: catch and finally
Rejected(message) ==
    /\ error' = message
    /\ isProcessing' = FALSE
    /\ phase' = "rejected"
    /\ UNCHANGED <<dateToken, stats, processedData, orders, phoneVars, invoiceVars>>

\* Papa's error callback: reject(error)
ParseReadError ==
    /\ isProcessing
    /\ UNCHANGED rawRows
    /\ Rejected(ReadErrorMessage)

\* Papa's complete callback with results.data = data, when rows.length === 0
ParseEmpty(data) ==
    /\ isProcessing
    /\ Len(data) = 0
    /\ rawRows' = data
    /\ Rejected(EmptyFileMessage)

\* Papa's complete callback, when !('Name' in rows[0])
ParseNoName(data) ==
    /\ isProcessing
    /\ Len(data) # 0
    /\ data[1].Name = Undefined
    /\ rawRows' = data
    /\ Rejected(NoNameMessage)

\* Math.max(0, n)
Max0(n) == IF n > 0 THEN n ELSE 0

\* setStats and setProcessedData
Publish(os, excelRows) ==
    /\ orders' = os
    /\ stats' = Some([orders |-> Len(os), items |-> Max0(Len(excelRows) - 1)])
    /\ processedData' = Some(excelRows)

\* steps 2 and 3 of the try block
Convert(os) == Publish(os, convertToMovaRows(os))

\* ParseResolved without the check of the Name key
ParseResolvedUnchecked(data) ==
    /\ isProcessing
    /\ Len(data) # 0
    /\ rawRows' = data
    /\ Convert(processOrders(data))
    /\ isProcessing' = FALSE
    /\ phase' = "converted"
    /\ UNCHANGED <<dateToken, error, phoneVars, invoiceVars>>

\* Papa's complete callback, when it calls resolve(rows): the rest of the try
\* block and finally
ParseResolved(data) ==
    /\ isProcessing
    /\ Len(data) # 0
    /\ data[1].Name # Undefined
    /\ rawRows' = data
    /\ Convert(processOrders(data))
    /\ isProcessing' = FALSE
    /\ phase' = "converted"
    /\ UNCHANGED <<dateToken, error, phoneVars, invoiceVars>>

\* the state of App after the first render
AppInit ==
    /\ dateToken = <<>>
    /\ isProcessing = FALSE
    /\ error = Null
    /\ stats = NoValue
    /\ processedData = NoValue
    /\ phase = "idle"
    /\ rawRows = <<>>
    /\ orders = <<>>

Init ==
    /\ AppInit
    /\ phoneIn = <<>>
    /\ phoneOut = NoValue
    /\ attrsIn = <<>>
    /\ invoiceOut = NoValue

Next ==
    \/ \E val \in DateInputs : handleDateTokenChange(val)
    \/ handleFileUpload
    \/ ParseReadError
    \/ \E data \in ParsedFiles : ParseEmpty(data)
    \/ \E data \in ParsedFiles : ParseNoName(data)
    \/ \E data \in ParsedFiles : ParseResolved(data)

Spec == Init /\ [][Next]_vars

-----------------------------------------------------------------------------
(* cleanPhone on its own: the phones of the source records                   *)

PhoneChars == {"+", "0", "6", "8", "9"}

\* the largest number of characters in front of the tail of a phone
MaxPhonePrefix == 4

\* the last digits of a phone: none, eight digits, or a bare mobile number
PhoneTails ==
    {<<>>,
     <<"1", "2", "3", "4", "5", "6", "7", "8">>,
     <<"9", "1", "2", "3", "4", "5", "6", "7", "8">>}

PhoneInputs ==
    {p \o t : p \in UNION {[1..n -> PhoneChars] : n \in 0..MaxPhonePrefix}, t \in PhoneTails}

InitPhone ==
    /\ AppInit
    /\ phoneIn \in PhoneInputs
    /\ phoneOut = NoValue
    /\ attrsIn = <<>>
    /\ invoiceOut = NoValue

\* the call cleanPhone(row['Shipping Phone'] || row['Billing Phone'])
NormalizePhone ==
    /\ phoneOut = NoValue
    /\ phoneOut' = Some(cleanPhone(phoneIn))
    /\ UNCHANGED <<appVars, phoneIn, invoiceVars>>

NextPhone == NormalizePhone

SpecPhone == InitPhone /\ [][NextPhone]_vars

-----------------------------------------------------------------------------
(* parseInvoiceInfo on its own: the note attributes of the source records    *)

NoteTokens == {KeyType, KeyId, KeyName, "\n", " ", "company", "Company", "7", "Acme"}

\* the largest number of tokens in a note-attributes blob
MaxBlobLen == 5

NoteBlobs == UNION {[1..n -> NoteTokens] : n \in 0..MaxBlobLen}

InitInvoice ==
    /\ AppInit
    /\ phoneIn = <<>>
    /\ phoneOut = NoValue
    /\ attrsIn \in NoteBlobs
    /\ invoiceOut = NoValue

\* the call parseInvoiceInfo(row['Note Attributes'])
ExtractInvoice ==
    /\ invoiceOut = NoValue
    /\ invoiceOut' = Some(parseInvoiceInfo(attrsIn))
    /\ UNCHANGED <<appVars, phoneVars, attrsIn>>

NextInvoice == ExtractInvoice

SpecInvoice == InitInvoice /\ [][NextInvoice]_vars

-----------------------------------------------------------------------------
(* Properties of a conversion run                                            *)

Converted == phase = "converted"

\* the export rows of a converted run
ExcelRows == processedData[1]

\* the items of an order built from source rows, and those added by the rule
RealItems(o) == SelectSeq(o.items, LAMBDA it : ~it.isSystemAddon)
AddonItems(o) == SelectSeq(o.items, LAMBDA it : it.isSystemAddon)

\* the sum of price * quantity over the items built from source rows
RealSum(o) == SumItems(RealItems(o))

IsShippingAddon(it) ==
    /\ it.sku = "Z90001"
    /\ it.quantity = Num(1)
    /\ it.price = Num(Whole(120))
    /\ it.isSystemAddon

ShippingRuleHolds(o) ==
    LET sum == RealSum(o)
        addons == AddonItems(o)
    IN /\ (~sum.nan /\ sum.v < Whole(1000)) => Len(addons) = 1 /\ IsShippingAddon(addons[1])
       /\ (~sum.nan /\ sum.v >= Whole(1000)) => addons = <<>>

\* C1: every order returned by processOrders whose real items sum to less
\* than 1000 carries exactly one shipping addon (Z90001, quantity 1, price
\* 120, system addon), and every order whose real items sum to 1000 or more
\* carries none.
C1_ShippingThreshold ==
    Converted => \A i \in 1..Len(orders) : ShippingRuleHolds(orders[i])

\* a run with an order summing to 999 that got the addon and an order summing
\* to exactly 1000 that got none
C1_Witness ==
    /\ Converted
    /\ \E i, j \in 1..Len(orders) :
          /\ RealSum(orders[i]) = Num(Whole(999))
          /\ Len(AddonItems(orders[i])) = 1
          /\ RealSum(orders[j]) = Num(Whole(1000))
          /\ AddonItems(orders[j]) = <<>>

\* the first record of an order in the input
FirstRowOf(rows, id) == rows[CHOOSE i \in 1..Len(rows) : rows[i].Name = id /\ \A j \in 1..(i - 1) : rows[j].Name # id]

\* C2: the stored subtotal of every returned order is the sum of price *
\* quantity over its real items only (the 120 of the addon is not in it), and
\* the Subtotal of the source record is kept in originalSubtotal only.
C2_SubtotalRealItems ==
    Converted =>
        \A i \in 1..Len(orders) :
            /\ orders[i].subtotal = RealSum(orders[i])
            /\ orders[i].originalSubtotal
                  = parseFloat(OrSeq(FirstRowOf(rawRows, orders[i].orderId).Subtotal, <<"0">>))

\* an order with the addon, whose subtotal is 999 and differs from the
\* source's Subtotal
C2_Witness ==
    /\ Converted
    /\ \E i \in 1..Len(orders) :
          /\ Len(AddonItems(orders[i])) = 1
          /\ orders[i].subtotal = Num(Whole(999))
          /\ orders[i].originalSubtotal = Num(Whole(5))

\* the identifiers of the input in the order of their first appearance
FirstSeenIndexes(rows) ==
    SelectSeq([i \in 1..Len(rows) |-> i],
              LAMBDA i : ~Falsy(rows[i].Name) /\ \A j \in 1..(i - 1) : rows[j].Name # rows[i].Name)

FirstSeenIds(rows) ==
    LET first == FirstSeenIndexes(rows)
    IN [k \in 1..Len(first) |-> rows[first[k]].Name]

\* the records of an order that carry a line item, in input order
ItemRowsOf(rows, id) == SelectSeq(rows, LAMBDA r : r.Name = id /\ ~Falsy(r.LineitemName))

ItemsInRowOrder(o) ==
    LET itemRows == ItemRowsOf(rawRows, o.orderId)
    IN /\ RealItems(o) = [k \in 1..Len(itemRows) |-> RowItem(itemRows[k])]
       /\ \A j \in 1..Len(o.items) : o.items[j].isSystemAddon => j = Len(o.items)

\* C3: the orders are returned in the order in which their identifiers first
\* appear in the input; the items of an order built from source rows are in
\* input row order; a shipping addon is the last item of its order.
C3_Ordering ==
    Converted =>
        /\ [i \in 1..Len(orders) |-> orders[i].orderId] = FirstSeenIds(rawRows)
        /\ \A i \in 1..Len(orders) : ItemsInRowOrder(orders[i])

\* interleaved records MOVA-2, MOVA-1, MOVA-2 with three different items, the
\* order of MOVA-2 ending with the addon
C3_Witness ==
    /\ Converted
    /\ Len(rawRows) = 3
    /\ rawRows[1].Name = "MOVA-2" /\ rawRows[2].Name = "MOVA-1" /\ rawRows[3].Name = "MOVA-2"
    /\ rawRows[1].LineitemName = "Gizmo" /\ rawRows[3].LineitemName = "Widget"
    /\ ~Falsy(rawRows[2].LineitemName)
    /\ Len(orders) = 2
    /\ orders[1].orderId = "MOVA-2"
    /\ Len(orders[1].items) = 2
    /\ Len(orders[2].items) = 2 /\ orders[2].items[2].isSystemAddon

\* the pairs <<order index, item index>> in order-then-item sequence
ItemPairs(os) == Flatten([i \in 1..Len(os) |-> [j \in 1..Len(os[i].items) |-> <<i, j>>]])

RECURSIVE TotalItems(_)
TotalItems(os) == IF os = <<>> THEN 0 ELSE Len(Head(os).items) + TotalItems(Tail(os))

\* the export row at position k + 1 belongs to the k-th item
RowOfItem(row, order, item) ==
    /\ DOMAIN row = 1..29
    /\ row[6] = item.sku
    /\ row[8] = item.quantity
    /\ row[9] = item.price
    /\ row[27] = order.orderId

\* C4: the export starts with the header row, followed by one row of 29
\* positions per item of each order (real items and addon) in order-then-item
\* sequence; the number of item rows (and the statistic derived from it) is
\* the total number of items after the shipping rule.
C4_OneRowPerItem ==
    Converted =>
        LET pairs == ItemPairs(orders)
        IN /\ ExcelRows[1] = MOVA_HEADERS
           /\ Len(ExcelRows) - 1 = TotalItems(orders)
           /\ Len(pairs) = TotalItems(orders)
           /\ \A k \in 1..Len(pairs) :
                 RowOfItem(ExcelRows[k + 1], orders[pairs[k][1]],
                           orders[pairs[k][1]].items[pairs[k][2]])
           /\ stats = Some([orders |-> Len(orders), items |-> TotalItems(orders)])

\* two orders, the first with two real items and an addon: four rows or more
C4_Witness ==
    /\ Converted
    /\ Len(orders) = 2
    /\ Len(RealItems(orders[1])) = 2 /\ Len(AddonItems(orders[1])) = 1
    /\ Len(ExcelRows) >= 5
    /\ ExcelRows[4][6] = "Z90001"

\* C5: finalizing an already finalized order again changes nothing, and no
\* order carries more than one system addon.
C5_FinalizeIdempotent ==
    Converted =>
        \A i \in 1..Len(orders) :
            /\ FinalizeOrder(orders[i]) = orders[i]
            /\ Len(AddonItems(orders[i])) <= 1

\* a field that is present and is not the text of a number
IsNumberText(s) ==
    /\ \A i \in 1..Len(s) : s[i] \in Digits \cup {"."} \/ (i = 1 /\ s[i] \in {"-", "+"})
    /\ \E i \in 1..Len(s) : s[i] \in Digits
    /\ Cardinality({i \in 1..Len(s) : s[i] = "."}) <= 1

Unparseable(s) == s # <<>> /\ ~IsNumberText(s)

ZeroWhenUnparseable(text, value) == Unparseable(text) => value = Num(0)

\* C6: a numeric source field that is present and not a number gives 0; the
\* subtotal and the emitted line totals are numbers, and the shipping rule is
\* applied to that subtotal.
C6_UnparseableIsZero ==
    Converted =>
        /\ \A i \in 1..Len(orders) :
              /\ \A k \in 1..Len(RealItems(orders[i])) :
                    /\ ZeroWhenUnparseable(ItemRowsOf(rawRows, orders[i].orderId)[k].LineitemQuantity,
                                           RealItems(orders[i])[k].quantity)
                    /\ ZeroWhenUnparseable(ItemRowsOf(rawRows, orders[i].orderId)[k].LineitemPrice,
                                           RealItems(orders[i])[k].price)
              /\ ZeroWhenUnparseable(FirstRowOf(rawRows, orders[i].orderId).Subtotal, orders[i].originalSubtotal)
              /\ ZeroWhenUnparseable(FirstRowOf(rawRows, orders[i].orderId).Shipping, orders[i].shippingFee)
              /\ ZeroWhenUnparseable(FirstRowOf(rawRows, orders[i].orderId).Total, orders[i].total)
              /\ ~orders[i].subtotal.nan
              /\ (orders[i].subtotal.v < Whole(1000)) <=> (Len(AddonItems(orders[i])) = 1)
        /\ \A k \in 2..Len(ExcelRows) : ~ExcelRows[k][7].nan

\* C7 as stated: a run reaches aggregation only if the first record carries a
\* non-empty Name.
C7_NonEmptyNameRequired ==
    Converted => Len(rawRows) > 0 /\ ~Falsy(rawRows[1].Name)

Finished == phase \in {"converted", "rejected"}

\* C7 as amended: a run reaches aggregation only if the parsed row set is
\* non-empty and its first record has the Name key (its value may be empty);
\* with zero rows, or a first record without the Name key, the run ends
\* rejected; a rejected run carries a message and has no orders, statistics
\* or export rows.
C7_PreFlight ==
    /\ Converted => Len(rawRows) > 0 /\ rawRows[1].Name # Undefined
    /\ (Finished /\ (Len(rawRows) = 0 \/ rawRows[1].Name = Undefined)) => phase = "rejected"
    /\ phase = "rejected" =>
          /\ error \in {EmptyFileMessage, NoNameMessage, ReadErrorMessage}
          /\ stats = NoValue
          /\ processedData = NoValue
          /\ orders = <<>>

\* a run rejected for a first record without the Name key
C7_Witness ==
    /\ phase = "rejected"
    /\ Len(rawRows) > 0
    /\ rawRows[1].Name = Undefined
    /\ error = NoNameMessage

\* the positions of an export row that do not come from the item
OrderLevelPositions == (1..29) \ {6, 7, 8, 9, 18}

RowMapping(row, o, it) ==
    /\ row[1] = (IF o.paymentRef # "" THEN o.paymentRef ELSE o.orderId)
    /\ row[6] = it.sku /\ row[18] = it.sku
    /\ row[7] = Mul(it.price, it.quantity)
    /\ row[8] = it.quantity
    /\ row[9] = it.price
    /\ row[10] = "XF1400" /\ row[13] = "6301" /\ row[14] = "N" /\ row[15] = "N"
    /\ row[16] = "2" /\ row[19] = "F91000000" /\ row[20] = "N"
    /\ \A p \in {5, 11, 12, 17, 21, 23, 24} : row[p] = ""
    /\ row[22] = o.carrierId
    /\ row[25] = o.taxId
    /\ row[26] = o.companyName
    /\ row[27] = o.orderId
    /\ row[28] = o.shopifyId
    /\ row[29] = o.email

\* C8: every item row follows the fixed mapping of positions (positions 0 ..
\* 28 of the code are 1 .. 29 here), and the rows of one order agree on every
\* order-level position.
C8_ColumnMapping ==
    Converted =>
        LET pairs == ItemPairs(orders)
        IN /\ Len(ExcelRows) = Len(pairs) + 1
           /\ \A k \in 1..Len(pairs) :
                 RowMapping(ExcelRows[k + 1], orders[pairs[k][1]],
                            orders[pairs[k][1]].items[pairs[k][2]])
           /\ \A k, l \in 1..Len(pairs) :
                 pairs[k][1] = pairs[l][1]
                     => \A p \in OrderLevelPositions : ExcelRows[k + 1][p] = ExcelRows[l + 1][p]

\* an order without payment reference exported under its identifier, and an
\* order with one exported under the reference in two rows
C8_Witness ==
    /\ Converted
    /\ Len(ExcelRows) = 4
    /\ ExcelRows[2][1] = "MOVA-2" /\ ExcelRows[2][27] = "MOVA-2"
    /\ ExcelRows[3][1] = "PAY-1" /\ ExcelRows[3][27] = "MOVA-1"
    /\ ExcelRows[3][25] = <<"1", "2">>
    /\ ExcelRows[4][1] = "PAY-1" /\ ExcelRows[4][6] = "Z90001"

-----------------------------------------------------------------------------
(* Properties of the normalizers                                             *)

\* the text that follows position i on its own line
RestOfLine(s, i) ==
    SubStr(s, i + 1,
           CHOOSE e \in i..Len(s) :
               /\ \A m \in (i + 1)..e : s[m] \notin LineBreaks
               /\ e = Len(s) \/ s[e + 1] \in LineBreaks)

\* the values of the InvoiceType pairs of a blob, each read from the line of
\* its key, trimmed and in lower case
TypeValues(blob) ==
    {ToLowerCase(Trim(RestOfLine(blob, i))) : i \in {j \in 1..Len(blob) : blob[j] = KeyType}}

\* C9: when the InvoiceType pair is absent or its value is not 'company', the
\* extractor returns empty taxId and companyName, whatever other pairs the
\* blob holds.
C9_ShortCircuit ==
    (invoiceOut # NoValue /\ <<"company">> \notin TypeValues(attrsIn))
        => invoiceOut = Some(EmptyInvoice)

\* the positions of a key in a blob
KeyPositions(blob, key) == {j \in 1..Len(blob) : blob[j] = key}

\* the last position of the blanks that follow position i on its own line
InlineWsEnd(s, i) ==
    CHOOSE j \in i..Len(s) :
        /\ \A m \in (i + 1)..j : s[m] \in WhiteSpace \ LineBreaks
        /\ j = Len(s) \/ s[j + 1] \notin WhiteSpace \ LineBreaks

\* the digit run that follows position i and the blanks after it, on its own line
DigitsOfLine(s, i) ==
    IF InlineWsEnd(s, i) < Len(s) /\ IsDigit(s[InlineWsEnd(s, i) + 1])
      THEN SubStr(s, InlineWsEnd(s, i) + 1, RunEnd(s, InlineWsEnd(s, i) + 1, ClassDigit))
      ELSE <<>>

\* the values a field may take when it is read from the line of its own key:
\* the empty string when the key is missing, else the value of one of its lines
NameValues(blob) ==
    IF KeyPositions(blob, KeyName) = {} THEN {<<>>}
    ELSE {Trim(RestOfLine(blob, i)) : i \in KeyPositions(blob, KeyName)}

TaxIdValues(blob) ==
    IF KeyPositions(blob, KeyId) = {} THEN {<<>>}
    ELSE {DigitsOfLine(blob, i) : i \in KeyPositions(blob, KeyId)}

\* C11: each extracted value is read from the line of its own key only: the
\* companyName is the trimmed rest of a CompanyName line, the taxId the digit
\* run of a CompanyId line, each empty when its key is missing or its line has
\* no value; values are returned only when an InvoiceType line reads
\* 'company'.  No field is filled with text from a following line.
C11_OwnLineOnly ==
    invoiceOut # NoValue =>
        /\ invoiceOut[1].companyName \in NameValues(attrsIn) \cup {<<>>}
        /\ invoiceOut[1].taxId \in TaxIdValues(attrsIn) \cup {<<>>}
        /\ TypeValues(attrsIn) = {<<"company">>} =>
              /\ invoiceOut[1].companyName \in NameValues(attrsIn)
              /\ invoiceOut[1].taxId \in TaxIdValues(attrsIn)
        /\ invoiceOut[1] # EmptyInvoice => <<"company">> \in TypeValues(attrsIn)

\* the reference algorithm of the phone normalizer
RefPhone(phone) ==
    LET d == SelectSeq(phone, IsDigit)
    IN IF Len(d) >= 3 /\ SubStr(d, 1, 3) = <<"8", "8", "6">> THEN <<"0">> \o SubStr(d, 4, Len(d))
       ELSE IF Len(d) = 9 /\ d[1] = "9" THEN <<"0">> \o d
       ELSE d

\* C10: cleanPhone gives what the reference algorithm gives (the empty phone
\* gives the empty string); its two steps never both apply; a normalized
\* phone normalizes to itself.
C10_PhoneNormalizer ==
    phoneOut # NoValue =>
        /\ phoneOut = Some(RefPhone(phoneIn))
        /\ ~(CountryStepFires(StripNonDigits(phoneIn))
                /\ MobileStepFires(CountryStep(StripNonDigits(phoneIn))))
        /\ cleanPhone(phoneOut[1]) = phoneOut[1]
        /\ phoneIn = <<>> => phoneOut = Some(<<>>)
        /\ phoneIn \in {<<"+", "8", "8", "6", "9", "1", "2", "3", "4", "5", "6", "7", "8">>,
                        <<"9", "1", "2", "3", "4", "5", "6", "7", "8">>,
                        <<"0", "9", "1", "2", "3", "4", "5", "6", "7", "8">>}
              => phoneOut = Some(<<"0", "9", "1", "2", "3", "4", "5", "6", "7", "8">>)

\* +886912345678 normalized to 0912345678
C10_Witness ==
    /\ phoneIn = <<"+", "8", "8", "6", "9", "1", "2", "3", "4", "5", "6", "7", "8">>
    /\ phoneOut = Some(<<"0", "9", "1", "2", "3", "4", "5", "6", "7", "8">>)

=============================================================================
